---- MODULE Spec2Model ----
(***************************************************************************)
(* A model of the stereo pairing server (src/unnamed/part_000): the        *)
(* connection registry, the two per-role frame buffers, attemptStereoPair, *)
(* and processStereoPair with its triangulation loop and its broadcast.    *)
(*                                                                         *)
(* Neither the 'message' handler nor processStereoPair contains an await,  *)
(* so a handler runs to completion: one frame message is one step which    *)
(* buffers the frame, pairs, reconstructs and broadcasts.                  *)
(***************************************************************************)
EXTENDS Integers, Sequences, FiniteSets, TLC

(* ------------------------------ bounds -------------------------------- *)

\* frames decoded and buffered in one run
MaxFrames == 3
\* boxes one detectMultiScale call may return (more than six)
MaxDet == 7

\* the connections the server accepts in one run
Socks == {1, 2}

\* capture timestamps (ms) a frame message may carry: differences of 0, 100,
\* exactly 200 and 300; two back frames of one timestamp are equally far from
\* any front frame
Timestamps == {0, 100, 300}

\* boxes the detector may return; widths and heights are even, so the
\* centers r.x + r.width/2 are whole numbers
Rects == { [x |-> 0, y |-> 0, width |-> 2, height |-> 2],
           [x |-> 1, y |-> 2, width |-> 2, height |-> 2] }

\* every list of at most n elements of S
SeqsUpTo(S, n) == UNION { [1..k -> S] : k \in 0..n }

(* ------------------------- program constants -------------------------- *)

\* attemptStereoPair: if (smallestDt > 200)
PairWindow == 200
\* Math.min(centersL.length, centersR.length, 6)
MaxPeople == 6
\* for (let k = result3D.length; k < 6; k++)
ResultLen == 6
\* Number.MAX_SAFE_INTEGER, the initial smallestDt; here the largest integer
\* TLC represents, which likewise exceeds every timestamp difference
MAX_SAFE_INTEGER == 2147483647

\* calibration read from stereo_calib.yaml: cameraMatrix1.at(0,0), at(1,1),
\* at(0,2), at(1,2) and |T.at(0,0)|
fx == 2
fy == 2
cx == 1
cy == 1
B == 3

\* { x: 0, y: 0, z: -1 }
Sentinel == [x |-> 0, y |-> 0, z |-> -1]

(* ------------------------------ state --------------------------------- *)

VARIABLES
    readyState,    \* socket -> "NONE" (not yet connected), "OPEN", "CLOSING", "CLOSED"
    myRole,        \* socket -> "null", "front", "back": the handler's closure variable
    clients,       \* the Map socket -> role, as its entries in insertion order
    frameBuffers,  \* [front |-> <<frames>>, back |-> <<frames>>]
    nextMat,       \* identity of the next decoded Mat
    handed,        \* history: the pairs <<front Mat, back Mat>> given to processStereoPair
    discarded,     \* history: the Mats of front frames dropped as stale
    sent,          \* history: the pairs whose broadcast loop was entered, in order
    last,          \* history: the event handled by the latest step
    tri            \* one run of the correspondence and triangulation loops

vars == <<readyState, myRole, clients, frameBuffers, nextMat, handed,
          discarded, sent, last, tri>>

(* ------------------- processStereoPair: (D) and (E) -------------------- *)

\* foundL.map(r => ({ x: r.x + r.width/2, y: r.y + r.height/2 }))
center(r) == [x |-> r.x + r.width \div 2, y |-> r.y + r.height \div 2]

centers(found) == [i \in 1..Len(found) |-> center(found[i])]

Min2(a, b) == IF a <= b THEN a ELSE b

\* the cap of six left out
numDetectedShort(centersL, centersR) == Min2(Len(centersL), Len(centersR))

\* const numDetected = Math.min(centersL.length, centersR.length, 6)
numDetected(centersL, centersR) ==
    Min2(Min2(Len(centersL), Len(centersR)), MaxPeople)

\* if (d <= 0)
noDisparity(d) == d <= 0

\* the else branch: Z = fx * B / d, X = (ptL.x - cx) * Z / fx,
\* Y = (ptL.y - cy) * Z / fy. The calibration and the boxes above make every
\* quotient exact.
reproject(ptL, d) ==
    LET Z == (fx * B) \div d
        X == ((ptL.x - cx) * Z) \div fx
        Y == ((ptL.y - cy) * Z) \div fy
    IN  [x |-> X, y |-> Y, z |-> Z]

\* the test written d < 0: a zero disparity reaches the division, whose
\* quotient in the source's arithmetic is Infinity
triangulateStrict(ptL, ptR) ==
    LET d == ptL.x - ptR.x
    IN  IF d < 0 THEN Sentinel
        ELSE IF d = 0 THEN [x |-> 0, y |-> 0, z |-> MAX_SAFE_INTEGER]
        ELSE reproject(ptL, d)

\* the body of the first loop for one index
triangulate(ptL, ptR) ==
    LET d == ptL.x - ptR.x
    IN  IF noDisparity(d) THEN Sentinel ELSE reproject(ptL, d)

\* for (let i = 0; i < numDetected; i++) { ... result3D.push(...) }
RECURSIVE correspond(_, _, _, _, _)
correspond(centersL, centersR, n, i, result3D) ==
    IF i < n
    THEN correspond(centersL, centersR, n, i + 1,
                    Append(result3D, triangulate(centersL[i + 1], centersR[i + 1])))
    ELSE result3D

\* the padding put in front of the real entries
RECURSIVE padFront(_, _)
padFront(result3D, k) ==
    IF k < ResultLen THEN padFront(<<Sentinel>> \o result3D, k + 1) ELSE result3D

\* for (let k = result3D.length; k < 6; k++) result3D.push({x:0, y:0, z:-1})
RECURSIVE pad(_, _)
pad(result3D, k) ==
    IF k < ResultLen THEN pad(Append(result3D, Sentinel), k + 1) ELSE result3D

\* steps (D) and (E): from the two lists of boxes to result3D
reconstruct(foundL, foundR) ==
    LET centersL == centers(foundL)
        centersR == centers(foundR)
        n == numDetected(centersL, centersR)
        real == correspond(centersL, centersR, n, 0, <<>>)
    IN  pad(real, Len(real))

(* ------------------------- attemptStereoPair -------------------------- *)

Abs(n) == IF n < 0 THEN -n ELSE n

\* the comparison written <=: the latest of equally close frames wins
closerOrEqual(dt, smallestDt) == dt <= smallestDt

\* if (dt < smallestDt)
closer(dt, smallestDt) == dt < smallestDt

\* for (let i = 0; i < frameBuffers.back.length; i++) { ... }
\* i and bestIdx count from 0 as in the source; back[i + 1] is back[i] there
RECURSIVE scanBack(_, _, _, _, _)
scanBack(back, frontFrame, i, bestIdx, smallestDt) ==
    IF i < Len(back)
    THEN LET dt == Abs(back[i + 1].timestamp - frontFrame.timestamp)
         IN  IF closer(dt, smallestDt)
             THEN scanBack(back, frontFrame, i + 1, i, dt)
             ELSE scanBack(back, frontFrame, i + 1, bestIdx, smallestDt)
    ELSE [bestIdx |-> bestIdx, smallestDt |-> smallestDt]

\* the window written with a digit too many
tooFarTypo(smallestDt) == smallestDt > 10 * PairWindow

\* if (smallestDt > 200)
tooFar(smallestDt) == smallestDt > PairWindow

\* the head left in the queue
shiftNothing(q) == q

\* Array.prototype.shift: the queue without its first element
shift(q) == IF q = <<>> THEN q ELSE Tail(q)

\* where Array.prototype.splice(start, 1) begins: a negative start counts
\* from the end
spliceStart(q, start) ==
    IF start < 0 THEN (IF Len(q) + start < 0 THEN 0 ELSE Len(q) + start)
    ELSE (IF start > Len(q) THEN Len(q) ELSE start)

\* the removed element read, the array left whole
spliceKeeps(q, start) ==
    LET from == spliceStart(q, start)
    IN  [removed |-> IF from < Len(q) THEN <<q[from + 1]>> ELSE <<>>,
         rest |-> q]

\* Array.prototype.splice(start, 1): the removed elements and what is left
splice(q, start) ==
    LET from == spliceStart(q, start)
    IN  [removed |-> IF from < Len(q) THEN <<q[from + 1]>> ELSE <<>>,
         rest |-> SubSeq(q, 1, from) \o SubSeq(q, from + 2, Len(q))]

\* attemptStereoPair without the return of its stale branch: after dropping
\* the front head it goes on to splice, shift and hand on a pair
attemptStereoPairFallsThrough(fb) ==
    IF Len(fb.front) = 0 \/ Len(fb.back) = 0
    THEN [buffers |-> fb, did |-> "none"]
    ELSE LET frontFrame == fb.front[1]
             scan == scanBack(fb.back, frontFrame, 0, -1, MAX_SAFE_INTEGER)
             cut == splice(fb.back, scan.bestIdx)
         IN  [buffers |-> [front |-> IF tooFar(scan.smallestDt)
                                     THEN shift(shift(fb.front))
                                     ELSE shift(fb.front),
                           back |-> cut.rest],
              did |-> "pair", frontFrame |-> frontFrame,
              backFrame |-> cut.removed[1], bestIdx |-> scan.bestIdx]

\* attemptStereoPair on the buffers fb: the buffers it leaves and what it did
\* ("none": a buffer was empty; "stale": the front head was dropped;
\*  "pair": frontFrame and backFrame go to processStereoPair, backFrame
\*  having been removed at bestIdx)
attemptStereoPair(fb) ==
    IF Len(fb.front) = 0 \/ Len(fb.back) = 0
    THEN [buffers |-> fb, did |-> "none"]
    ELSE LET frontFrame == fb.front[1]
             scan == scanBack(fb.back, frontFrame, 0, -1, MAX_SAFE_INTEGER)
         IN  IF tooFar(scan.smallestDt)
             THEN [buffers |-> [front |-> shift(fb.front), back |-> fb.back],
                   did |-> "stale", frontFrame |-> frontFrame]
             ELSE LET cut == splice(fb.back, scan.bestIdx)
                  IN  [buffers |-> [front |-> shift(fb.front), back |-> cut.rest],
                       did |-> "pair", frontFrame |-> frontFrame,
                       backFrame |-> cut.removed[1], bestIdx |-> scan.bestIdx]

(* -------------------- processStereoPair: (F) -------------------------- *)

\* if (cli.readyState === ws.OPEN)
sendable(rs) == rs = "OPEN"

\* for (const [cli, r] of clients.entries()) { if (...) cli.send(payload) }
\* inside the try block: a send that throws leaves the loop for the catch.
\* failing: the connections whose send throws. Gives the connections whose
\* send returned, in order, and the one whose send threw (0: none).
RECURSIVE broadcast(_, _, _, _, _)
broadcast(entries, rs, failing, i, to) ==
    IF i > Len(entries) THEN [to |-> to, threw |-> 0]
    ELSE LET cli == entries[i].socket
         IN  IF sendable(rs[cli])
             THEN IF cli \in failing
                  THEN [to |-> to, threw |-> cli]
                  ELSE broadcast(entries, rs, failing, i + 1, Append(to, cli))
             ELSE broadcast(entries, rs, failing, i + 1, to)

(* ------------------------ the connection registry --------------------- *)

Keys(entries) == { entries[i].socket : i \in 1..Len(entries) }

\* Map.prototype.set: an existing key keeps its place and takes the new value,
\* a new key goes to the end
mapSet(entries, socket, role) ==
    IF socket \in Keys(entries)
    THEN [i \in 1..Len(entries) |->
            IF entries[i].socket = socket
            THEN [socket |-> socket, role |-> role] ELSE entries[i]]
    ELSE Append(entries, [socket |-> socket, role |-> role])

\* Map.prototype.clear in its place
mapDeleteAll(entries, socket) == <<>>

\* Map.prototype.delete
mapDelete(entries, socket) ==
    SelectSeq(entries, LAMBDA e : e.socket # socket)

(* ------------------------------ events -------------------------------- *)

\* tri before and outside a run of the triangulation loops
Idle == [phase |-> "idle"]

\* the lists of boxes the detector returns in a run of the whole server: no
\* box, fewer than six, six, and more than six, of either kind
DetCounts == {0, 2, MaxPeople, MaxDet}
SomeFound == { [i \in 1..n |-> r] : n \in DetCounts, r \in Rects }

\* what steps (D) and (E) make of them
SomeResults == { reconstruct(foundL, foundR) : foundL \in SomeFound, foundR \in SomeFound }

Init ==
    /\ readyState = [s \in Socks |-> "NONE"]
    /\ myRole = [s \in Socks |-> "null"]
    /\ clients = <<>>
    /\ frameBuffers = [front |-> <<>>, back |-> <<>>]
    /\ nextMat = 1
    /\ handed = <<>>
    /\ discarded = {}
    /\ sent = <<>>
    /\ last = [op |-> "start"]
    /\ tri = Idle

\* wss.on('connection'): let myRole = null, and the two handlers are installed
Connection(s) ==
    /\ readyState[s] = "NONE"
    /\ readyState' = [readyState EXCEPT ![s] = "OPEN"]
    /\ last' = [op |-> "connection", socket |-> s]
    /\ UNCHANGED <<myRole, clients, frameBuffers, nextMat, handed, discarded,
                   sent, tri>>

\* 'message' with data JSON.parse rejects: logged, return
MsgUnparsable(s) ==
    /\ readyState[s] = "OPEN"
    /\ last' = [op |-> "unparsable"]
    /\ UNCHANGED <<readyState, myRole, clients, frameBuffers, nextMat, handed,
                   discarded, sent, tri>>

\* the test of msg.role left out
acceptedAny(role) == TRUE

\* if (msg.role === 'front' || msg.role === 'back')
accepted(role) == role = "front" \/ role = "back"

\* 'message' with msg.type === 'role'
MsgRole(s, role) ==
    /\ readyState[s] = "OPEN"
    /\ IF accepted(role)
       THEN /\ myRole' = [myRole EXCEPT ![s] = role]
            /\ clients' = mapSet(clients, s, role)
       ELSE UNCHANGED <<myRole, clients>>
    /\ last' = IF accepted(role) THEN [op |-> "role", socket |-> s, role |-> role]
                ELSE [op |-> "role", role |-> role]
    /\ UNCHANGED <<readyState, frameBuffers, nextMat, handed, discarded, sent, tri>>

\* 'message' with msg.type neither 'role' nor 'frame'
MsgOther(s) ==
    /\ readyState[s] = "OPEN"
    /\ last' = [op |-> "other"]
    /\ UNCHANGED <<readyState, myRole, clients, frameBuffers, nextMat, handed,
                   discarded, sent, tri>>

\* the test of myRole left out
hasRoleAlways(role) == TRUE

\* && (myRole === 'front' || myRole === 'back')
hasRole(role) == role = "front" \/ role = "back"

\* the buffer frames of a socket without a role would go to, were the role
\* test absent: frameBuffers[null] is no buffer
bufferOf(role) == IF role = "back" THEN "back" ELSE "front"

\* frameBuffers[myRole].push({ seq, timestamp, matColor })
push(fb, role, frame) == [fb EXCEPT ![bufferOf(role)] = Append(@, frame)]

\* 'message' with msg.type === 'frame' on a socket whose role test fails
FrameIgnored(s) ==
    /\ readyState[s] = "OPEN"
    /\ ~hasRole(myRole[s])
    /\ last' = [op |-> "frame", socket |-> s, did |-> "ignored"]
    /\ UNCHANGED <<readyState, myRole, clients, frameBuffers, nextMat, handed,
                   discarded, sent, tri>>

\* the catch of cv.imdecode without its return: the frame is pushed with no
\* Mat (0) and attemptStereoPair runs
FrameUndecodableFallsThrough(s) ==
    /\ readyState[s] = "OPEN"
    /\ hasRole(myRole[s])
    /\ \E timestamp \in Timestamps :
          frameBuffers' = attemptStereoPair(push(frameBuffers, myRole[s],
                              [matColor |-> 0, timestamp |-> timestamp])).buffers
    /\ last' = [op |-> "frame", socket |-> s, did |-> "undecodable"]
    /\ UNCHANGED <<readyState, myRole, clients, nextMat, handed, discarded,
                   sent, tri>>

\* 'message' with msg.type === 'frame' whose image cv.imdecode rejects
FrameUndecodable(s) ==
    /\ readyState[s] = "OPEN"
    /\ hasRole(myRole[s])
    /\ last' = [op |-> "frame", socket |-> s, did |-> "undecodable"]
    /\ UNCHANGED <<readyState, myRole, clients, frameBuffers, nextMat, handed,
                   discarded, sent, tri>>

\* Frame messages carry the fields of the interface: an integer timestamp and
\* a string img.

\* what a 'message' with msg.type === 'frame' and a decodable image does to
\* the buffers of a socket with a role: the frame is pushed and
\* attemptStereoPair runs
buffered(s, frame) == attemptStereoPair(push(frameBuffers, myRole[s], frame))

\* such a message after which attemptStereoPair hands no pair on
FrameBuffered(s, timestamp) ==
    /\ readyState[s] = "OPEN"
    /\ hasRole(myRole[s])
    /\ nextMat <= MaxFrames
    /\ LET frame == [matColor |-> nextMat, timestamp |-> timestamp]
           pairing == buffered(s, frame)
       IN  /\ pairing.did # "pair"
           /\ frameBuffers' = pairing.buffers
           /\ discarded' = IF pairing.did = "stale"
                           THEN discarded \cup {pairing.frontFrame.matColor}
                           ELSE discarded
           /\ last' = [op |-> "frame", socket |-> s, did |-> pairing.did,
                       frame |-> frame]
    /\ nextMat' = nextMat + 1
    /\ UNCHANGED <<readyState, myRole, clients, handed, sent, tri>>

\* such a message after which attemptStereoPair hands a pair to
\* processStereoPair, and one of its steps (A) to (E) throws: the catch logs
FramePairedThrows(s, timestamp) ==
    /\ readyState[s] = "OPEN"
    /\ hasRole(myRole[s])
    /\ nextMat <= MaxFrames
    /\ LET frame == [matColor |-> nextMat, timestamp |-> timestamp]
           pairing == buffered(s, frame)
       IN  /\ pairing.did = "pair"
           /\ frameBuffers' = pairing.buffers
           /\ handed' = Append(handed, <<pairing.frontFrame.matColor,
                                         pairing.backFrame.matColor>>)
           /\ last' = [op |-> "frame", socket |-> s, did |-> "pair",
                       frame |-> frame, bestIdx |-> pairing.bestIdx,
                       stages |-> "threw"]
    /\ nextMat' = nextMat + 1
    /\ UNCHANGED <<readyState, myRole, clients, discarded, sent, tri>>

\* the connections a send is attempted on
OpenClients == { s \in Keys(clients) : readyState[s] = "OPEN" }

\* the broadcast loop dropping from the registry the connections it finds not
\* open
FramePairedPrunes(s, timestamp) ==
    /\ readyState[s] = "OPEN"
    /\ hasRole(myRole[s])
    /\ nextMat <= MaxFrames
    /\ LET frame == [matColor |-> nextMat, timestamp |-> timestamp]
           pairing == buffered(s, frame)
       IN  /\ pairing.did = "pair"
           /\ frameBuffers' = pairing.buffers
           /\ LET pair == <<pairing.frontFrame.matColor, pairing.backFrame.matColor>>
              IN  /\ handed' = Append(handed, pair)
                  /\ sent' = Append(sent, pair)
                  /\ \E failing \in SUBSET OpenClients, result3D \in SomeResults :
                       LET loop == broadcast(clients, readyState, failing, 1, <<>>)
                       IN  last' = [op |-> "frame", socket |-> s, did |-> "pair",
                                    frame |-> frame, bestIdx |-> pairing.bestIdx,
                                    stages |-> "returned",
                                    data |-> result3D,
                                    to |-> loop.to, threw |-> loop.threw]
    /\ clients' = SelectSeq(clients, LAMBDA e : readyState[e.socket] = "OPEN")
    /\ nextMat' = nextMat + 1
    /\ UNCHANGED <<readyState, myRole, discarded, tri>>

\* such a message after which attemptStereoPair hands a pair to
\* processStereoPair, whose steps (A) to (E) return: the detector gives foundL
\* and foundR, and the broadcast loop runs; failing are the connections whose
\* send throws
FramePaired(s, timestamp) ==
    /\ readyState[s] = "OPEN"
    /\ hasRole(myRole[s])
    /\ nextMat <= MaxFrames
    /\ LET frame == [matColor |-> nextMat, timestamp |-> timestamp]
           pairing == buffered(s, frame)
       IN  /\ pairing.did = "pair"
           /\ frameBuffers' = pairing.buffers
           /\ LET pair == <<pairing.frontFrame.matColor, pairing.backFrame.matColor>>
              IN  /\ handed' = Append(handed, pair)
                  /\ sent' = Append(sent, pair)
                  /\ \E failing \in SUBSET OpenClients, result3D \in SomeResults :
                       LET loop == broadcast(clients, readyState, failing, 1, <<>>)
                       IN  last' = [op |-> "frame", socket |-> s, did |-> "pair",
                                    frame |-> frame, bestIdx |-> pairing.bestIdx,
                                    stages |-> "returned",
                                    data |-> result3D,
                                    to |-> loop.to, threw |-> loop.threw]
    /\ nextMat' = nextMat + 1
    /\ UNCHANGED <<readyState, myRole, clients, discarded, tri>>

\* the peer's close frame arrives: readyState leaves OPEN before 'close' fires
StartClosing(s) ==
    /\ readyState[s] = "OPEN"
    /\ readyState' = [readyState EXCEPT ![s] = "CLOSING"]
    /\ last' = [op |-> "closing", socket |-> s]
    /\ UNCHANGED <<myRole, clients, frameBuffers, nextMat, handed, discarded,
                   sent, tri>>

\* socket.on('close'): clients.delete(socket)
Close(s) ==
    /\ readyState[s] \in {"OPEN", "CLOSING"}
    /\ readyState' = [readyState EXCEPT ![s] = "CLOSED"]
    /\ clients' = mapDelete(clients, s)
    /\ last' = [op |-> "close", socket |-> s]
    /\ UNCHANGED <<myRole, frameBuffers, nextMat, handed, discarded, sent, tri>>

Next ==
    \/ \E s \in Socks : Connection(s)
    \/ \E s \in Socks : MsgUnparsable(s)
    \/ \E s \in Socks, role \in {"front", "back", "viewer"} : MsgRole(s, role)
    \/ \E s \in Socks : MsgOther(s)
    \/ \E s \in Socks : FrameIgnored(s)
    \/ \E s \in Socks : FrameUndecodable(s)
    \/ \E s \in Socks, timestamp \in Timestamps : FrameBuffered(s, timestamp)
    \/ \E s \in Socks, timestamp \in Timestamps : FramePairedThrows(s, timestamp)
    \/ \E s \in Socks, timestamp \in Timestamps : FramePaired(s, timestamp)
    \/ \E s \in Socks : StartClosing(s)
    \/ \E s \in Socks : Close(s)

Spec == Init /\ [][Next]_vars

(* ------------- steps (D) and (E) alone, on every input ---------------- *)

\* the detector has returned foundL and foundR, lists of at most MaxDet boxes
InitTri ==
    /\ readyState = [s \in Socks |-> "NONE"]
    /\ myRole = [s \in Socks |-> "null"]
    /\ clients = <<>>
    /\ frameBuffers = [front |-> <<>>, back |-> <<>>]
    /\ nextMat = 1
    /\ handed = <<>>
    /\ discarded = {}
    /\ sent = <<>>
    /\ last = [op |-> "start"]
    /\ \E foundL \in SeqsUpTo(Rects, MaxDet), foundR \in SeqsUpTo(Rects, MaxDet) :
          tri = [phase |-> "detected", foundL |-> foundL, foundR |-> foundR]

\* the two loops run
Reconstruct ==
    /\ tri.phase = "detected"
    /\ tri' = [phase |-> "done", foundL |-> tri.foundL, foundR |-> tri.foundR,
               result3D |-> reconstruct(tri.foundL, tri.foundR)]
    /\ UNCHANGED <<readyState, myRole, clients, frameBuffers, nextMat, handed,
                   discarded, sent, last>>

NextTri == Reconstruct

SpecTri == InitTri /\ [][NextTri]_vars

(* ====================== the result frame (C1, C9, C10) ================= *)

Range(q) == { q[i] : i \in 1..Len(q) }

\* the latest step ran processStereoPair up to its broadcast loop
Broadcast == last.op = "frame" /\ last.did = "pair" /\ last.stages = "returned"

\* C1: every '3d_positions' payload that reaches the broadcast loop carries
\* exactly six positions, whatever the two detection counts were (none, fewer
\* than six, six, more than six, equal or not).
C1_SixPositions == Broadcast => Len(last.data) = 6

\* a payload holding real positions followed by padding was sent to a client
C1_Witness ==
    /\ Broadcast
    /\ last.to # <<>>
    /\ last.data[1] # Sentinel
    /\ last.data[6] = Sentinel

\* the run of the two loops is over
Reconstructed == tri.phase = "done"

\* C9: n = min(|left|, |right|, 6) correspondences are triangulated, entry i
\* (i < n) from the i-th left and the i-th right center, and the entries from
\* n up to 5 are the sentinel: six entries, padding only at the end.
C9_IndexPairedThenPadded ==
    Reconstructed =>
        LET centersL == [i \in 1..Len(tri.foundL) |->
                            [x |-> tri.foundL[i].x + tri.foundL[i].width \div 2,
                             y |-> tri.foundL[i].y + tri.foundL[i].height \div 2]]
            centersR == [i \in 1..Len(tri.foundR) |->
                            [x |-> tri.foundR[i].x + tri.foundR[i].width \div 2,
                             y |-> tri.foundR[i].y + tri.foundR[i].height \div 2]]
            n == CHOOSE m \in {Len(centersL), Len(centersR), 6} :
                     m <= Len(centersL) /\ m <= Len(centersR) /\ m <= 6
        IN  /\ Len(tri.result3D) = 6
            /\ \A i \in 1..n : tri.result3D[i] = triangulate(centersL[i], centersR[i])
            /\ \A i \in (n + 1)..6 : tri.result3D[i] = Sentinel

\* more left boxes than six, three right boxes, a real position among the
\* three entries and a sentinel among them too
C9_Witness ==
    /\ Reconstructed
    /\ Len(tri.foundL) > 6
    /\ Len(tri.foundR) = 3
    /\ \E i \in 1..3 : tri.result3D[i] # Sentinel
    /\ \E i \in 1..3 : tri.result3D[i] = Sentinel

\* the horizontal disparity of the i-th correspondence
Disparity(i) ==
    (tri.foundL[i].x + tri.foundL[i].width \div 2)
        - (tri.foundR[i].x + tri.foundR[i].width \div 2)

Triangulated ==
    1..(CHOOSE m \in {Len(tri.foundL), Len(tri.foundR), 6} :
            m <= Len(tri.foundL) /\ m <= Len(tri.foundR) /\ m <= 6)

\* C10: a correspondence whose disparity d = centerLeft.x - centerRight.x is
\* zero or negative gets the sentinel (0, 0, -1), at its own index.
C10_NonPositiveDisparityIsSentinel ==
    Reconstructed =>
        \A i \in Triangulated :
            Disparity(i) <= 0 =>
                i <= Len(tri.result3D) /\ tri.result3D[i] = [x |-> 0, y |-> 0, z |-> -1]

\* a zero disparity at one index, a negative one at another and a positive
\* one, with a real position, at a third
C10_Witness ==
    /\ Reconstructed
    /\ \E i \in Triangulated : Disparity(i) = 0
    /\ \E i \in Triangulated : Disparity(i) < 0
    /\ \E i \in Triangulated : Disparity(i) > 0 /\ tri.result3D[i] # Sentinel

(* ========================= pairing (C2, C3, C4) ======================== *)

\* this step handled a frame message that was decoded and buffered
FrameArrives == nextMat' # nextMat

\* the buffer of a role as attemptStereoPair finds it in such a step: the
\* arriving frame is at the tail of the buffer of its sender's role
Arrived(role) ==
    IF myRole[last'.socket] = role
    THEN Append(frameBuffers[role], last'.frame)
    ELSE frameBuffers[role]

\* how far the back frame b is from the front frame f
DtOf(b, f) == IF b.timestamp < f.timestamp THEN f.timestamp - b.timestamp
              ELSE b.timestamp - f.timestamp

\* the earliest-arrived frame of back among those closest to f
Chosen(back, f) ==
    CHOOSE i \in 1..Len(back) :
        /\ \A j \in 1..Len(back) : DtOf(back[i], f) <= DtOf(back[j], f)
        /\ \A j \in 1..(i - 1) : DtOf(back[j], f) > DtOf(back[i], f)

Without(q, i) == [j \in 1..(Len(q) - 1) |-> IF j < i THEN q[j] ELSE q[j + 1]]

C3_StaleFrontDropped ==
    [][ FrameArrives =>
        LET front == Arrived("front")
            back == Arrived("back")
        IN  (front # <<>> /\ back # <<>>
                /\ \A i \in 1..Len(back) : DtOf(back[i], front[1]) > 200)
            => /\ frameBuffers'.front = Tail(front)
               /\ frameBuffers'.back = back
               /\ discarded' = discarded \cup {front[1].matColor}
               /\ handed' = handed
               /\ sent' = sent
               /\ last'.did = "stale" ]_vars

\* a front frame was dropped in front of two waiting back frames
C3_Witness ==
    /\ last.op = "frame" /\ last.did = "stale"
    /\ Len(frameBuffers.back) = 2
    /\ discarded = {last.frame.matColor}

\* the Mats held by a buffer
MatsIn(q) == { q[i].matColor : i \in 1..Len(q) }

Buffered == MatsIn(frameBuffers.front) \cup MatsIn(frameBuffers.back)

Paired == { handed[i][1] : i \in 1..Len(handed) } \cup { handed[i][2] : i \in 1..Len(handed) }

\* C4: a buffered frame is consumed at most once: no frame is in two pairs or
\* twice in one, none is both paired and discarded as stale, and a paired or
\* discarded frame is in neither buffer (nor is any frame in a buffer twice).
C4_ConsumedAtMostOnce ==
    /\ Cardinality(Paired) = 2 * Len(handed)
    /\ Paired \cap discarded = {}
    /\ (Paired \cup discarded) \cap Buffered = {}
    /\ Cardinality(Buffered) = Len(frameBuffers.front) + Len(frameBuffers.back)

\* one front frame was discarded as stale and the next was paired
C4_Witness ==
    /\ Len(handed) = 1
    /\ Cardinality(discarded) = 1
    /\ Buffered = {}

(* ========================= broadcast (C5, C6) ========================== *)

\* C5: when a reconstruction completes and no send throws, every connection
\* that is open at that moment receives the '3d_positions' message, whatever
\* its role, a connection without a role included.
C5_EveryOpenConnectionReceives ==
    (Broadcast /\ last.threw = 0) =>
        \A s \in Socks : readyState[s] = "OPEN" => s \in Range(last.to)

\* C6: when the send to one connection throws, every other open connection in
\* the registry still receives that pair's message, wherever it stands in the
\* iteration order.
C6_SendFailureIsolated ==
    (Broadcast /\ last.threw # 0) =>
        \A s \in Keys(clients) \ {last.threw} :
            readyState[s] = "OPEN" => s \in Range(last.to)

(* ===================== roles and frames (C7, C8) ======================= *)

\* C7 as stated: once a connection has role front or back, no later message
\* changes the role recorded for it.
C7_RoleImmutable ==
    [][ \A s \in Socks : myRole[s] # "null" => myRole'[s] = myRole[s] ]_vars

RoleIn(entries, s) ==
    { entries[i].role : i \in { j \in 1..Len(entries) : entries[j].socket = s } }

\* C7 as amended: the role of a connection changes only by an accepted
\* registration message on that connection (role front or back), which records
\* the new role in the handler and in the registry, the first time and every
\* later time; and a buffered frame goes to the tail of the buffer of the role
\* its connection has at that moment, the other buffer not growing.
C7_RoleFollowsLatestRegistration ==
    [][ /\ \A s \in Socks :
              (myRole'[s] # myRole[s] \/ RoleIn(clients', s) # RoleIn(clients, s)) =>
                  \/ /\ last'.op = "role" /\ last'.role \in {"front", "back"}
                     /\ last'.socket = s
                     /\ myRole'[s] = last'.role
                     /\ RoleIn(clients', s) = {last'.role}
                  \/ /\ last'.op = "close" /\ last'.socket = s
                     /\ myRole'[s] = myRole[s]
                     /\ RoleIn(clients', s) = {}
        /\ (last'.op = "role" /\ last'.role \in {"front", "back"}) =>
              /\ myRole'[last'.socket] = last'.role
              /\ RoleIn(clients', last'.socket) = {last'.role}
        /\ FrameArrives =>
              LET role == myRole[last'.socket]
                  other == IF role = "front" THEN "back" ELSE "front"
              IN  /\ role \in {"front", "back"}
                  /\ Len(frameBuffers'[other]) <= Len(frameBuffers[other])
                  /\ last'.did = "none" =>
                        frameBuffers'[role] = Append(frameBuffers[role], last'.frame)
      ]_vars

\* the only connection there has been registered as front, buffered a frame,
\* and has just registered again, as back
C7_Witness ==
    /\ last = [op |-> "role", socket |-> 1, role |-> "back"]
    /\ readyState[2] = "NONE"
    /\ frameBuffers.front # <<>>
    /\ myRole[1] = "back"
    /\ clients = << [socket |-> 1, role |-> "back"] >>

\* C8: a frame message on a connection without a role is ignored: the frame
\* buffers and the registry stay as they are, attemptStereoPair does not run
\* (no frame leaves a buffer, no pair is handed on) and nothing is broadcast.
C8_FrameWithoutRoleIgnored ==
    [][ (last'.op = "frame" /\ myRole[last'.socket] = "null") =>
            /\ UNCHANGED <<frameBuffers, clients, myRole, nextMat>>
            /\ UNCHANGED <<handed, discarded, sent>>
            /\ last'.did = "ignored" ]_vars

\* such a message arrived while frames of both roles were waiting
C8_Witness ==
    /\ last.op = "frame" /\ last.did = "ignored"
    /\ myRole[last.socket] = "null"
    /\ frameBuffers.front # <<>>
    /\ frameBuffers.back # <<>>

(* ==================== pipeline and handlers (C11..) ==================== *)

\* C11: a pair handed to processStereoPair is still being processed when the
\* frame handler that formed it has returned, so that later frames are buffered
\* and paired while it is in flight and two pairs P1, P2 can be broadcast in
\* either order: the step that hands a pair on does not broadcast its result.
C11_PairStillInFlight ==
    [][ handed' # handed => sent' = sent ]_vars

\* what the program does instead: processStereoPair has no await, so it runs
\* to its end inside the call at the end of attemptStereoPair; between two
\* handlers no pair is in flight, and the results are broadcast in the order
\* the pairs were formed, each one before the next frame is handled.
C11_BroadcastInPairingOrder ==
    [][ /\ \A i \in 1..Len(sent) : \E j \in 1..Len(handed) : sent[i] = handed[j]
        /\ \A i, j \in 1..Len(sent') :
              i < j => \E k, l \in 1..Len(handed') :
                          k < l /\ handed'[k] = sent'[i] /\ handed'[l] = sent'[j]
        /\ sent' # sent =>
              /\ handed' = Append(handed, handed'[Len(handed')])
              /\ sent' = Append(sent, handed'[Len(handed')]) ]_vars

\* this step handed a pair to processStereoPair, one of whose steps (A) to (E)
\* threw
PipelineThrows == last'.op = "frame" /\ last'.did = "pair" /\ last'.stages = "threw"

\* C12: when the pipeline fails for a pair, the failure ends in the catch of
\* processStereoPair: nothing is broadcast for the pair, the frame handler
\* completes as for any pair (the arriving frame is counted, roles and registry
\* stay), the two frames are in neither buffer afterwards and the pair is on
\* record once, never handed on again; the frames still waiting stay where
\* they are, so that later frames are buffered and paired with them.
C12_PipelineFailureCaught ==
    [][ /\ PipelineThrows =>
              LET front == Arrived("front")
                  back == Arrived("back")
                  pair == handed'[Len(handed')]
              IN  /\ sent' = sent
                  /\ handed' = Append(handed, pair)
                  /\ pair[1] = front[1].matColor
                  /\ pair[2] \in MatsIn(back)
                  /\ MatsIn(frameBuffers'.front) = MatsIn(front) \ {pair[1]}
                  /\ MatsIn(frameBuffers'.back) = MatsIn(back) \ {pair[2]}
                  /\ nextMat' = nextMat + 1
                  /\ UNCHANGED <<readyState, myRole, clients, discarded>>
        /\ \A i \in 1..Len(handed) :
              /\ handed'[i] = handed[i]
              /\ handed[i][1] \notin MatsIn(frameBuffers'.front) \cup MatsIn(frameBuffers'.back)
              /\ handed[i][2] \notin MatsIn(frameBuffers'.front) \cup MatsIn(frameBuffers'.back)
              /\ \A j \in (Len(handed) + 1)..Len(handed') :
                    handed'[j][1] # handed[i][1] /\ handed'[j][2] # handed[i][2]
      ]_vars

\* after a pair whose pipeline failed, with nothing broadcast for it, a later
\* frame has been buffered
C12_Witness ==
    /\ last.op = "frame" /\ last.did = "none"
    /\ Len(handed) = 1
    /\ sent = <<>>
    /\ last.frame.matColor \in Buffered

\* C13: a frame message whose image cv.imdecode rejects is dropped: both frame
\* buffers are as before (nothing pushed, and attemptStereoPair, which would
\* take the front head whenever both buffers hold frames, has not run), no
\* pair is handed on, nothing is discarded or broadcast, and the connection
\* keeps its role, its registry entry and its open state.
C13_UndecodableFrameDropped ==
    [][ (last'.op = "frame" /\ hasRole(myRole[last'.socket])
            /\ nextMat' = nextMat) =>
            /\ last'.did = "undecodable"
            /\ UNCHANGED <<frameBuffers, handed, discarded, sent>>
            /\ UNCHANGED <<myRole, clients, readyState>>
            /\ readyState[last'.socket] = "OPEN" ]_vars

\* such a message came from a registered connection while frames of both
\* roles were waiting, a pair within the window among them
C13_Witness ==
    /\ last.op = "frame" /\ last.did = "undecodable"
    /\ myRole[last.socket] \in {"front", "back"}
    /\ last.socket \in Keys(clients)
    /\ frameBuffers.front # <<>>
    /\ frameBuffers.back # <<>>
    /\ DtOf(frameBuffers.back[1], frameBuffers.front[1]) <= 200

\* C14: a registration message whose role is neither 'front' nor 'back' has
\* no effect: the registry, the role of every connection (the sender's,
\* assigned before or not, included) and both frame buffers are as before, no
\* pair is formed and nothing is sent, to the sender or to anyone.
C14_OtherRoleRejected ==
    [][ (last'.op = "role" /\ last'.role \notin {"front", "back"}) =>
            /\ UNCHANGED <<clients, myRole, frameBuffers>>
            /\ UNCHANGED <<readyState, nextMat, handed, discarded, sent>> ]_vars

\* the only connection there is, registered as front and with a frame waiting,
\* has just sent such a message
C14_Witness ==
    /\ last = [op |-> "role", role |-> "viewer"]
    /\ readyState = [s \in Socks |-> IF s = 1 THEN "OPEN" ELSE "NONE"]
    /\ myRole[1] = "front"
    /\ clients = << [socket |-> 1, role |-> "front"] >>
    /\ frameBuffers.front # <<>>

\* C15: processStereoPair changes neither the frame buffers nor the registry.
\* In a step that hands a pair on, whether the pipeline then broadcasts or
\* fails, the buffers are left as attemptStereoPair left them (the arriving
\* frame pushed, the front head and the one paired back frame removed, the
\* other frames in their order), and the registry and the roles are as before
\* the step; no step other than a frame message that buffers a frame changes
\* the buffers, and none other than a role or close message the registry.
C15_PipelineLeavesBuffersAndRegistry ==
    [][ /\ handed' # handed =>
              LET front == Arrived("front")
                  back == Arrived("back")
                  pair == handed'[Len(handed')]
              IN  /\ last'.stages \in {"returned", "threw"}
                  /\ frameBuffers'.front = Tail(front)
                  /\ frameBuffers'.back =
                        SelectSeq(back, LAMBDA b : b.matColor # pair[2])
                  /\ Len(frameBuffers'.back) = Len(back) - 1
                  /\ UNCHANGED <<clients, myRole>>
        /\ frameBuffers' # frameBuffers => FrameArrives
        /\ clients' # clients => last'.op \in {"role", "close"} ]_vars

\* a result was broadcast while the registry held a connection that was no
\* longer open, and a frame stayed behind in a buffer
C15_Witness ==
    /\ Broadcast
    /\ \E s \in Keys(clients) : readyState[s] = "CLOSING"
    /\ Buffered # {}

\* C16: one run of attemptStereoPair resolves at most one front frame. With a
\* buffer empty it changes nothing (the arriving frame stays buffered, no pair,
\* nothing discarded). With both buffers non-empty it removes exactly the head
\* of the front buffer, removes no back frame or exactly one (the others
\* keeping their order), and hands on no pair or exactly one, made of that
\* head, however many matchable frames are left in the buffers.
C16_AtMostOnePairPerInvocation ==
    [][ FrameArrives =>
        LET front == Arrived("front")
            back == Arrived("back")
        IN  IF front = <<>> \/ back = <<>>
            THEN /\ frameBuffers' = [front |-> front, back |-> back]
                 /\ UNCHANGED <<handed, discarded, sent>>
            ELSE /\ frameBuffers'.front = Tail(front)
                 /\ \/ /\ frameBuffers'.back = back
                       /\ handed' = handed
                       /\ discarded' = discarded \cup {front[1].matColor}
                    \/ /\ \E i \in 1..Len(back) :
                             /\ frameBuffers'.back = Without(back, i)
                             /\ handed' = Append(handed, <<front[1].matColor,
                                                           back[i].matColor>>)
                       /\ discarded' = discarded
                 /\ Len(sent') <= Len(sent) + 1 ]_vars

\* a run that dropped a stale front head left behind a front frame and a back
\* frame within the window of each other, which it did not pair
C16_Witness ==
    /\ last.op = "frame" /\ last.did = "stale"
    /\ frameBuffers.front # <<>>
    /\ frameBuffers.back # <<>>
    /\ DtOf(frameBuffers.back[1], frameBuffers.front[1]) <= 200
    /\ handed = <<>>

\* C17: nothing evicts a back frame. A frame leaves the back buffer only in a
\* step that pairs it with the head of the front buffer, that head being within
\* 200 ms of it; every other back frame stays, in its place. And a frame that
\* arrives on a back connection and is not paired in that step lengthens the
\* back buffer by one, whatever its length.
C17_BackLeavesOnlyByPairing ==
    [][ /\ \A i \in 1..Len(frameBuffers.back) :
              LET b == frameBuffers.back[i]
              IN  b.matColor \notin MatsIn(frameBuffers'.back) =>
                      /\ FrameArrives
                      /\ Arrived("front") # <<>>
                      /\ DtOf(b, Arrived("front")[1]) <= 200
                      /\ handed' = Append(handed, <<Arrived("front")[1].matColor,
                                                    b.matColor>>)
                      /\ frameBuffers'.back = Without(Arrived("back"), i)
        /\ (FrameArrives /\ myRole[last'.socket] = "back" /\ handed' = handed) =>
              frameBuffers'.back = Append(frameBuffers.back, last'.frame) ]_vars

\* a back frame left by being paired, from behind a back frame that is more
\* than 200 ms from that front head and stayed
C17_Witness ==
    /\ last.op = "frame" /\ last.did = "pair"
    /\ last.bestIdx = 1
    /\ Len(frameBuffers.back) = 1
    /\ myRole[last.socket] = "front"
    /\ DtOf(frameBuffers.back[1], last.frame) > 200

(* ------------- frames without end: the buffers alone (C18) ------------- *)

\* The handlers that change a buffer, a role or the registry, with frame
\* messages arriving without end. What the pipeline does with a pair is left
\* out (it changes no buffer) and no history is kept; the messages that change
\* nothing of the server are stuttering steps. A Mat is named by the least
\* number no buffered Mat has, and at most MaxFrames frames are buffered at a
\* time.

\* timestamps within the window of each other and beyond it
LiveTimestamps == {0, 300}

FreeMat == CHOOSE m \in 1..MaxFrames :
               m \notin Buffered /\ \A k \in 1..(m - 1) : k \in Buffered

\* 'message' with msg.type === 'frame' and a decodable image on a socket with
\* a role: the frame is pushed and attemptStereoPair runs
FrameLive(s, timestamp) ==
    /\ readyState[s] = "OPEN"
    /\ hasRole(myRole[s])
    /\ Cardinality(Buffered) < MaxFrames
    /\ LET frame == [matColor |-> FreeMat, timestamp |-> timestamp]
       IN  frameBuffers' = buffered(s, frame).buffers
    /\ last' = [op |-> "frame"]
    /\ UNCHANGED <<readyState, myRole, clients, nextMat, handed, discarded,
                   sent, tri>>

NextLive ==
    \/ \E s \in Socks : Connection(s)
    \/ \E s \in Socks, role \in {"front", "back", "viewer"} : MsgRole(s, role)
    \/ \E s \in Socks, timestamp \in LiveTimestamps : FrameLive(s, timestamp)
    \/ \E s \in Socks : Close(s)

\* a frame of a back connection is decoded and buffered
BackFrameArrives ==
    \E s \in Socks, timestamp \in LiveTimestamps :
        myRole[s] = "back" /\ FrameLive(s, timestamp)

\* the proviso of C18: frames from a back connection keep arriving and
\* decoding. (Weak or strong fairness of BackFrameArrives would not say it: the
\* action is disabled once the back connections have closed.)
BackFramesKeepArriving == []<><<BackFrameArrives>>_vars

SpecLive == Init /\ [][NextLive]_vars /\ BackFramesKeepArriving

\* C18: while frames of a back connection keep arriving and decoding, every
\* frame in the front buffer is eventually out of it.
C18_FrontFrameEventuallyRemoved ==
    \A m \in 1..MaxFrames :
        (m \in MatsIn(frameBuffers.front)) ~> (m \notin MatsIn(frameBuffers.front))

\* C18, its second half: a frame that arrives on a back connection while
\* front frames are waiting takes the head of the front buffer out, and only
\* the head: the others move up one place, in their order.
C18_OnePerArrival ==
    [][ (BackFrameArrives /\ frameBuffers.front # <<>>) =>
            frameBuffers'.front = Tail(frameBuffers.front) ]_vars

\* two front frames are waiting behind each other, no back frame with them
C18_Witness ==
    /\ Len(frameBuffers.front) = 2
    /\ frameBuffers.back = <<>>
    /\ last.op = "frame"

\* C19: when attemptStereoPair pairs (the smallest difference is at most
\* 200), bestIdx is an index of the back buffer, 0 <= bestIdx < length, never
\* the initial -1; it is the first index at which the difference to the front
\* head is least; and the frame removed from the back buffer and handed on is
\* the one at bestIdx, no other.
C19_BestIdxValidAndFirst ==
    [][ (FrameArrives /\ last'.did = "pair") =>
        LET f == Arrived("front")[1]
            back == Arrived("back")
            bestIdx == last'.bestIdx
        IN  /\ 0 <= bestIdx /\ bestIdx < Len(back)
            /\ DtOf(back[bestIdx + 1], f) <= 200
            /\ \A j \in 1..Len(back) :
                  DtOf(back[bestIdx + 1], f) <= DtOf(back[j], f)
            /\ \A j \in 1..bestIdx :
                  DtOf(back[j], f) > DtOf(back[bestIdx + 1], f)
            /\ handed'[Len(handed')] = <<f.matColor, back[bestIdx + 1].matColor>>
            /\ frameBuffers'.back = Without(back, bestIdx + 1) ]_vars

\* two back frames at the same distance (0) from the front frame: the one at
\* index 0 was removed and the one behind it stayed
C19_Witness ==
    /\ last.op = "frame" /\ last.did = "pair"
    /\ myRole[last.socket] = "front"
    /\ last.frame = [matColor |-> 3, timestamp |-> 0]
    /\ last.bestIdx = 0
    /\ handed = << <<3, 1>> >>
    /\ frameBuffers.back = << [matColor |-> 2, timestamp |-> 0] >>

\* C20: the close of a connection removes its registry entry and nothing
\* else: both frame buffers, the frames of that connection among them, are as
\* before, the other entries keep their order, no pair is formed or dropped;
\* and no broadcast, at any time, sends to a connection that is not open, so
\* none reaches a connection after its close.
C20_CloseRemovesOnlyRegistryEntry ==
    [][ /\ last'.op = "close" =>
              /\ frameBuffers' = frameBuffers
              /\ clients' = SelectSeq(clients, LAMBDA e : e.socket # last'.socket)
              /\ readyState'[last'.socket] = "CLOSED"
              /\ \A s \in Socks \ {last'.socket} : readyState'[s] = readyState[s]
              /\ UNCHANGED <<myRole, nextMat, handed, discarded, sent>>
        /\ Broadcast' =>
              \A i \in 1..Len(last'.to) :
                  /\ readyState[last'.to[i]] = "OPEN"
                  /\ last'.to[i] \in Keys(clients)
        /\ \A s \in Socks : readyState[s] = "CLOSED" =>
              /\ readyState'[s] = "CLOSED"
              /\ s \notin Keys(clients') ]_vars

\* connection 1, registered as front, buffered frame 1 and closed; the frame
\* of connection 2 was then paired with it and the result sent to 2 alone
C20_Witness ==
    /\ Broadcast
    /\ readyState[1] = "CLOSED" /\ myRole[1] = "front"
    /\ myRole[2] = "back" /\ last.socket = 2
    /\ handed = << <<1, 2>> >>
    /\ last.to = <<2>>

====
